---- MODULE Spec2Model ----
(***************************************************************************)
(* GitTeach agent pipeline scripts: verify_flow (scripts/verify_agent_     *)
(* flow.py) and verify_analysis_flow (scripts/verify_repo_analysis.py).    *)
(* One turn = one call of the flow function.  A turn makes up to three     *)
(* HTTP calls to the chat-completions backend (router, constructor,        *)
(* responder) with a mocked execution between the second and the third.    *)
(*                                                                         *)
(* Text is modelled as a sequence of chunks: a backtick, the word json,    *)
(* a blank, a newline, a JSON document or a plain sentence.  The text is   *)
(* the concatenation of its chunks.                                        *)
(*                                                                         *)
(* run_stress_test (scripts/stress_test_ai.py) has its own state: the      *)
(* exported prompt file, the scenario index, the results list and the      *)
(* audit report.  parse_input/parse_output hold one application of the      *)
(* response parser.                                                        *)
(***************************************************************************)
EXTENDS Integers, Sequences, FiniteSets, TLC

VARIABLES flow, user_input, pc, outcome, calls,
          router_resp, tool_id, const_resp, const_json,
          mock_result, final_resp,
          backend,
          parse_input, parse_output,
          prompt_file, system_prompt, scenario, results, report,
          stress_pc, posted

\* the state of the turns
turnVars == <<flow, user_input, pc, outcome, calls,
              router_resp, tool_id, const_resp, const_json,
              mock_result, final_resp>>

\* the state of one application of the response parser
parserVars == <<parse_input, parse_output>>

\* the state of run_stress_test
stressVars == <<prompt_file, system_prompt, scenario, results, report,
                stress_pc, posted>>

vars == <<turnVars, backend, parserVars, stressVars>>

(* ---------------------------------------------------------------------- *)
(* Bounds                                                                  *)
(* ---------------------------------------------------------------------- *)

\* how many times a backend reply may be wrapped in a ```json fence
MaxFenceDepth == 1

\* the longest raw text, in chunks, handed to the response parser
MaxRawLen == 3

\* the turns of one process: each script runs its flow function once
TurnIds == {1}

(* ---------------------------------------------------------------------- *)
(* Text chunks and JSON documents                                          *)
(* ---------------------------------------------------------------------- *)

\* one backtick character (SANY does not lex a backtick inside a string)
BT == "BT"
\* the pattern of the first replace(): '```json'
FenceJson == <<BT, BT, BT, "json">>
\* the pattern of the second replace(): '```'
Fence == <<BT, BT, BT>>
\* characters removed by str.strip(): every character c with c.isspace(),
\* the ASCII blanks and the other Unicode ones (named by code point)
Whitespace ==
    {" ", "\n", "\t", "\r", "\f", "U+000B", "U+001C", "U+001D", "U+001E",
     "U+001F", "U+0085", "U+00A0", "U+1680", "U+2000", "U+2001", "U+2002",
     "U+2003", "U+2004", "U+2005", "U+2006", "U+2007", "U+2008", "U+2009",
     "U+200A", "U+2028", "U+2029", "U+202F", "U+205F", "U+3000"}

NoParams == [k \in {} |-> ""]

\* what json.loads returns for a document: its top-level shape and the
\* members the flows read
JVal(kind, keys, tool, toolId, action, params_kind, params) ==
    [kind |-> kind, keys |-> keys, tool |-> tool, toolId |-> toolId,
     action |-> action, params_kind |-> params_kind, params |-> params]

\* const_json / router_json before json.loads has produced a value
NoJson == JVal("unset", {}, "", "", "", "absent", NoParams)

\* the JSON documents a reply may carry, with the value json.loads gives
JsonDocs ==
    { [text |-> "{\"tool\": \"welcome_header\"}",
       value |-> JVal("object", {"tool"}, "welcome_header", "", "", "absent", NoParams)],
      [text |-> "{\"tool\": \"read_repo\"}",
       value |-> JVal("object", {"tool"}, "read_repo", "", "", "absent", NoParams)],
      [text |-> "{\"tool\": \"chat\"}",
       value |-> JVal("object", {"tool"}, "chat", "", "", "absent", NoParams)],
      [text |-> "{\"tool\": \"not_a_real_tool\"}",
       value |-> JVal("object", {"tool"}, "not_a_real_tool", "", "", "absent", NoParams)],
      [text |-> "{}",
       value |-> JVal("object", {}, "", "", "", "absent", NoParams)],
      [text |-> "[\"welcome_header\"]",
       value |-> JVal("array", {}, "", "", "", "absent", NoParams)],
      [text |-> "{\"action\": \"insert_banner\", \"toolId\": \"welcome_header\", \"params\": {\"type\": \"shark\", \"color\": \"blue\"}}",
       value |-> JVal("object", {"action", "toolId", "params"}, "", "welcome_header",
                      "insert_banner", "dict",
                      [k \in {"type", "color"} |-> IF k = "type" THEN "shark" ELSE "blue"])],
      [text |-> "{\"action\": \"insert_banner\", \"toolId\": \"github_stats\", \"params\": {\"type\": \"shark\"}}",
       value |-> JVal("object", {"action", "toolId", "params"}, "", "github_stats",
                      "insert_banner", "dict", [k \in {"type"} |-> "shark"])],
      [text |-> "{\"action\": \"insert_banner\", \"toolId\": \"welcome_header\", \"params\": {\"color\": \"red\", \"font\": \"comic\"}}",
       value |-> JVal("object", {"action", "toolId", "params"}, "", "welcome_header",
                      "insert_banner", "dict",
                      [k \in {"color", "font"} |-> IF k = "color" THEN "red" ELSE "comic"])],
      [text |-> "{\"params\": \"blue\"}",
       value |-> JVal("object", {"params"}, "", "", "", "other", NoParams)] }

JsonTexts == { d.text : d \in JsonDocs }

\* a reply that is not JSON at all
PlainText == "Sorry, I cannot help"

\* placeholder of a text variable that has not been assigned yet
Unset == <<"<unset>">>

(* ---------------------------------------------------------------------- *)
(* Response parsing: raw.replace('```json','').replace('```','').strip()   *)
(* followed by json.loads                                                  *)
(* ---------------------------------------------------------------------- *)

RECURSIVE Replace(_, _)
\* str.replace(pat, ''): leftmost, non-overlapping occurrences are removed
Replace(s, pat) ==
    IF Len(s) < Len(pat) THEN s
    ELSE IF SubSeq(s, 1, Len(pat)) = pat
         THEN Replace(SubSeq(s, Len(pat) + 1, Len(s)), pat)
         ELSE <<Head(s)>> \o Replace(Tail(s), pat)

RECURSIVE LStrip(_)
LStrip(s) ==
    IF s # <<>> /\ Head(s) \in Whitespace THEN LStrip(Tail(s)) ELSE s

RECURSIVE RStrip(_)
RStrip(s) ==
    IF s # <<>> /\ s[Len(s)] \in Whitespace
    THEN RStrip(SubSeq(s, 1, Len(s) - 1)) ELSE s

\* str.strip()
Strip(s) == RStrip(LStrip(s))

\* a cleaning that forgets the second replace(): the closing fence stays
CleanJson_OpeningFenceOnly(raw) == Strip(Replace(raw, FenceJson))

\* the argument handed to json.loads
CleanJson(raw) == Strip(Replace(Replace(raw, FenceJson), Fence))

\* json.loads succeeds: the text is exactly one JSON document
JsonLoadsOk(s) == Len(s) = 1 /\ s[1] \in JsonTexts

\* json.loads(s) for a text on which it succeeds
JsonLoads(s) == (CHOOSE d \in JsonDocs : d.text = s[1]).value

\* the try blocks around json.loads and the .get() on its value: the parsed
\* object, or the failure the except branch catches (json.loads raised, or
\* .get raised AttributeError on a value that is no dict)
ParseJson(raw) ==
    LET clean == CleanJson(raw) IN
    IF JsonLoadsOk(clean) /\ JsonLoads(clean).kind = "object"
    THEN [ok |-> TRUE, value |-> JsonLoads(clean)]
    ELSE [ok |-> FALSE, value |-> NoJson]

(* ---------------------------------------------------------------------- *)
(* The backend: what one requests.post(URL, json=...) can come back with   *)
(* ---------------------------------------------------------------------- *)

RECURSIVE Fenced(_, _)
\* a text wrapped n times in a ```json ... ``` fence, each on its own line
Fenced(c, n) ==
    IF n = 0 THEN c
    ELSE FenceJson \o <<"\n">> \o Fenced(c, n - 1) \o <<"\n">> \o Fence

\* the message contents the model may produce
Contents ==
    { Fenced(<<d>>, n) : d \in JsonTexts, n \in 0..MaxFenceDepth }
    \cup { <<PlainText>>, <<>>,
           <<"\t", "{\"tool\": \"welcome_header\"}", "\r", "\n">> }

HttpReply(kind, status, shape, content) ==
    [kind |-> kind, status |-> status, shape |-> shape, content |-> content]

\* conn_error: requests.post raises ConnectionError
\* no_answer:  the server never answers (the calls carry no timeout)
\* response:   an HTTP response; its body is not JSON, JSON without
\*             'choices', or a chat completion carrying a message content
Replies ==
    { HttpReply("conn_error", 0, "none", <<>>),
      HttpReply("no_answer", 0, "none", <<>>) }
    \cup { HttpReply("response", st, sh, <<>>) :
             st \in {200, 500}, sh \in {"not_json", "no_choices"} }
    \cup { HttpReply("response", st, "completion", c) :
             st \in {200, 500}, c \in Contents }

\* requests.post(URL, json=...).json()['choices'][0]['message']['content']
\* the HTTP status is not looked at: "content" for every completion body
PostResult(reply) ==
    IF reply.kind = "no_answer" THEN "BLOCKED"
    ELSE IF reply.kind = "conn_error" \/ reply.shape # "completion" THEN "RAISED"
    ELSE "content"

(* ---------------------------------------------------------------------- *)
(* Prompts and results                                                     *)
(* ---------------------------------------------------------------------- *)

NoResult == [kind |-> "unset", tool |-> "", color |-> ""]

\* the system prompt of a call: which template, and what was formatted in
Prompt(template, tool, result) ==
    [template |-> template, tool |-> tool, result |-> result]

\* verify_agent_flow.get_router_prompt / verify_repo_analysis.get_router_prompt
get_router_prompt == Prompt("router", "", NoResult)

\* verify_agent_flow.get_constructor_prompt: the tool id is formatted in
get_constructor_prompt(tid) == Prompt("constructor", tid, NoResult)

\* verify_repo_analysis.get_constructor_prompt: one of two fixed texts
analysis_constructor_prompt(tid) ==
    IF tid = "read_repo" THEN Prompt("constructor_read_repo", tid, NoResult)
    ELSE Prompt("constructor_empty", tid, NoResult)

\* get_responder_prompt(tool, result, user_input) of both scripts
get_responder_prompt(tool, result) == Prompt("responder", tool, result)

\* a bug that mixes up the temperatures: the classifier samples, the
\* responder is deterministic
Temperature_Swapped(stage) == IF stage = "ROUTING" THEN 7 ELSE 0

\* the "temperature" of the request body of each call, in tenths:
\* 0.0 for the router and the constructor, 0.7 for the responder
Temperature(stage) == IF stage = "RESPONDING" THEN 7 ELSE 0

\* the parameter names the constructor prompt asks for (VARIABLES A EXTRAER)
ParamSchema == {"type", "color", "text"}

\* one backend call: the request sent and the reply received
Call(stage, system, user, temperature, reply) ==
    [stage |-> stage, system |-> system, user |-> user,
     temperature |-> temperature, reply |-> reply]

\* the tool ids of the CATALOG section of each router prompt
Catalog(f) ==
    IF f = "verify_flow"
    THEN {"github_stats", "welcome_header", "tech_stack", "top_langs",
          "contribution_snake"}
    ELSE {"list_repos", "read_repo", "chat"}

Flows == {"verify_flow", "verify_analysis_flow"}

AnalysisInput == "Analiza el repositorio intro-electron y dime qué hace"

\* the utterances a turn may start with
Utterances(f) ==
    IF f = "verify_flow"
    THEN {"Pon un banner estilo shark color azul", "Hola"}
    ELSE {AnalysisInput}

(* ---------------------------------------------------------------------- *)
(* State                                                                   *)
(* ---------------------------------------------------------------------- *)

Turns == DOMAIN flow

\* the turns `ids` at the entry of their flow function
TurnsInit(ids) ==
    /\ flow \in [ids -> Flows]
    /\ user_input \in [ids -> UNION { Utterances(f) : f \in Flows }]
    /\ \A t \in ids : user_input[t] \in Utterances(flow[t])
    /\ pc = [t \in ids |-> "ROUTING"]
    /\ outcome = [t \in ids |-> "running"]
    /\ calls = [t \in ids |-> <<>>]
    /\ router_resp = [t \in ids |-> Unset]
    /\ tool_id = [t \in ids |-> "<unset>"]
    /\ const_resp = [t \in ids |-> Unset]
    /\ const_json = [t \in ids |-> NoJson]
    /\ mock_result = [t \in ids |-> NoResult]
    /\ final_resp = [t \in ids |-> Unset]

\* a backend that may give any of `replies`; `deterministic` makes it a
\* fixed table from request to reply
BackendInit(replies, deterministic) ==
    backend = [replies |-> replies, deterministic |-> deterministic, table |-> {}]

\* no parser application in progress
ParserIdle ==
    /\ parse_input = <<>>
    /\ parse_output = <<>>

\* run_stress_test not started
StressIdle ==
    /\ prompt_file = "missing"
    /\ system_prompt = "<unset>"
    /\ scenario = 0
    /\ results = <<>>
    /\ report = <<"<not written>">>
    /\ stress_pc = "idle"
    /\ posted = 0

Init ==
    /\ TurnsInit(TurnIds)
    /\ BackendInit(Replies, FALSE)
    /\ ParserIdle
    /\ StressIdle

\* the turn ends in the stage it is in: "DONE" (the function returns after
\* its work), "FAILED" (it returns from an except branch), "RAISED" (an
\* exception leaves the function) or "BLOCKED" (a call never returns)
Finish(t, how) ==
    /\ outcome' = [outcome EXCEPT ![t] = how]
    /\ UNCHANGED pc

\* one module-level "current stage" that every turn reads and writes
Goto_Shared(t, stage) ==
    /\ pc' = [u \in DOMAIN pc |-> stage]
    /\ UNCHANGED outcome

\* the turn goes on to its next stage
Goto(t, stage) ==
    /\ pc' = [pc EXCEPT ![t] = stage]
    /\ UNCHANGED outcome

AtStage(t, f, stage) ==
    flow[t] = f /\ pc[t] = stage /\ outcome[t] = "running"

\* a request body that also carries what the backend was asked before
Request_WithHistory(system, user, temperature) ==
    [system |-> system, user |-> user, temperature |-> temperature,
     history |-> { e.req.user : e \in backend.table }]

\* the body of a request: {"model", "messages": [system, user], "temperature"}
Request(system, user, temperature) ==
    [system |-> system, user |-> user, temperature |-> temperature]

\* the replies the backend may give to a request.  A deterministic backend
\* (a fixed table from request to reply, filled in as requests arrive)
\* repeats its reply to a request it has seen.
Answers(req) ==
    IF /\ backend.deterministic
       /\ \E e \in backend.table : e.req = req
    THEN { e.reply : e \in { x \in backend.table : x.req = req } }
    ELSE backend.replies

\* requests.post(URL, json={...}) of a turn: the request goes out and the
\* reply comes back
Post(t, stage, system, reply) ==
    LET req == Request(system, user_input[t], Temperature(stage)) IN
    /\ reply \in Answers(req)
    /\ calls' = [calls EXCEPT ![t] =
                   Append(@, Call(stage, system, user_input[t], Temperature(stage), reply))]
    /\ backend' = IF backend.deterministic
                  THEN [backend EXCEPT !.table = @ \cup {[req |-> req, reply |-> reply]}]
                  ELSE backend

(* ---------------------------------------------------------------------- *)
(* verify_flow (scripts/verify_agent_flow.py)                              *)
(* ---------------------------------------------------------------------- *)

\* lines 94-100: the try block of the router; ok = FALSE is the bare
\* except (json.loads raised, or .get raised on a value that is no dict)
RouterParse(raw) ==
    LET clean == CleanJson(raw) IN
    IF ~JsonLoadsOk(clean) THEN [ok |-> FALSE, tool |-> ""]
    ELSE LET router_json == JsonLoads(clean) IN
         IF router_json.kind # "object" THEN [ok |-> FALSE, tool |-> ""]
         ELSE [ok |-> TRUE,
               tool |-> IF "tool" \in router_json.keys
                        THEN router_json.tool ELSE "chat"]

\* lines 117-122: the try block of the constructor.  const_json is bound
\* at line 118 as soon as json.loads returns; const_json.get of line 119
\* raises on a value that is no dict, and the value stays bound
ConstructorParse(raw) ==
    LET clean == CleanJson(raw) IN
    IF ~JsonLoadsOk(clean) THEN [ok |-> FALSE, json |-> NoJson]
    ELSE LET cj == JsonLoads(clean) IN
         [ok |-> cj.kind = "object", json |-> cj]

\* the execution never raises: a value of 'params' that is no dict is
\* treated as an empty dict
ExecutionRaises_Swallowed(cj) == FALSE

\* line 126: const_json.get('params', {}).get(...) raises AttributeError
\* when 'params' is present and is no dict
ExecutionRaises(cj) == cj.params_kind = "other"

\* line 126: const_json.get('params', {}).get('color', 'auto')
ParamColor(cj) ==
    IF cj.params_kind = "dict" /\ "color" \in DOMAIN cj.params
    THEN cj.params["color"] ELSE "auto"

\* line 126: the simulated result of the execution
MockResult(tid, cj) == [kind |-> "banner", tool |-> tid, color |-> ParamColor(cj)]

\* lines 83-104
VerifyFlow_Router(t) ==
    /\ AtStage(t, "verify_flow", "ROUTING")
    /\ \E reply \in backend.replies :
         LET res == PostResult(reply)
             parsed == RouterParse(reply.content)
         IN /\ Post(t, "ROUTING", get_router_prompt, reply)
            /\ IF res # "content"
               THEN Finish(t, res) /\ UNCHANGED <<router_resp, tool_id>>
               ELSE /\ router_resp' = [router_resp EXCEPT ![t] = reply.content]
                    /\ IF ~parsed.ok
                       THEN Finish(t, "FAILED") /\ UNCHANGED tool_id
                       ELSE /\ tool_id' = [tool_id EXCEPT ![t] = parsed.tool]
                            /\ IF parsed.tool = "chat"
                               THEN Finish(t, "DONE")
                               ELSE Goto(t, "CONSTRUCTING")
    /\ UNCHANGED <<flow, user_input, const_resp, const_json, mock_result, final_resp>>
    /\ UNCHANGED <<parserVars, stressVars>>

\* lines 106-122
VerifyFlow_Constructor(t) ==
    /\ AtStage(t, "verify_flow", "CONSTRUCTING")
    /\ \E reply \in backend.replies :
         LET res == PostResult(reply)
             parsed == ConstructorParse(reply.content)
         IN /\ Post(t, "CONSTRUCTING", get_constructor_prompt(tool_id[t]), reply)
            /\ IF res # "content"
               THEN Finish(t, res) /\ UNCHANGED <<const_resp, const_json>>
               ELSE /\ const_resp' = [const_resp EXCEPT ![t] = reply.content]
                    /\ const_json' = [const_json EXCEPT ![t] = parsed.json]
                    /\ IF ~parsed.ok
                       THEN Finish(t, "FAILED")
                       ELSE Goto(t, "EXECUTING")
    /\ UNCHANGED <<flow, user_input, router_resp, tool_id, mock_result, final_resp>>
    /\ UNCHANGED <<parserVars, stressVars>>

\* lines 124-127
VerifyFlow_Execution(t) ==
    /\ AtStage(t, "verify_flow", "EXECUTING")
    /\ IF ExecutionRaises(const_json[t])
       THEN Finish(t, "RAISED") /\ UNCHANGED mock_result
       ELSE /\ mock_result' = [mock_result EXCEPT ![t] =
                                  MockResult(tool_id[t], const_json[t])]
            /\ Goto(t, "RESPONDING")
    /\ UNCHANGED <<flow, user_input, calls, backend, router_resp, tool_id, const_resp,
                   const_json, final_resp>>
    /\ UNCHANGED <<parserVars, stressVars>>

\* lines 129-142
VerifyFlow_Responder(t) ==
    /\ AtStage(t, "verify_flow", "RESPONDING")
    /\ \E reply \in backend.replies :
         LET res == PostResult(reply)
         IN /\ Post(t, "RESPONDING", get_responder_prompt(tool_id[t], mock_result[t]), reply)
            /\ IF res # "content"
               THEN Finish(t, res) /\ UNCHANGED final_resp
               ELSE /\ final_resp' = [final_resp EXCEPT ![t] = reply.content]
                    /\ Finish(t, "DONE")
    /\ UNCHANGED <<flow, user_input, router_resp, tool_id, const_resp, const_json,
                   mock_result>>
    /\ UNCHANGED <<parserVars, stressVars>>

(* ---------------------------------------------------------------------- *)
(* verify_analysis_flow (scripts/verify_repo_analysis.py)                  *)
(* ---------------------------------------------------------------------- *)

\* lines 90-93: json.loads(...)['tool'], and "read_repo" when anything in
\* the try raises (no JSON, a value that is no dict, or no 'tool' key)
AnalysisRouterParse(raw) ==
    LET clean == CleanJson(raw) IN
    IF ~JsonLoadsOk(clean) THEN "read_repo"
    ELSE LET router_json == JsonLoads(clean) IN
         IF router_json.kind # "object" \/ "tool" \notin router_json.keys
         THEN "read_repo"
         ELSE router_json.tool

\* line 108: the simulated content of the README
AnalysisResult == [kind |-> "readme", tool |-> "intro-electron", color |-> ""]

\* lines 81-93
VerifyAnalysisFlow_Router(t) ==
    /\ AtStage(t, "verify_analysis_flow", "ROUTING")
    /\ \E reply \in backend.replies :
         LET res == PostResult(reply)
         IN /\ Post(t, "ROUTING", get_router_prompt, reply)
            /\ IF res # "content"
               THEN Finish(t, res) /\ UNCHANGED <<router_resp, tool_id>>
               ELSE /\ router_resp' = [router_resp EXCEPT ![t] = reply.content]
                    /\ tool_id' = [tool_id EXCEPT ![t] = AnalysisRouterParse(reply.content)]
                    /\ Goto(t, "CONSTRUCTING")
    /\ UNCHANGED <<flow, user_input, const_resp, const_json, mock_result, final_resp>>
    /\ UNCHANGED <<parserVars, stressVars>>

\* lines 95-102: the reply is printed and never parsed
VerifyAnalysisFlow_Constructor(t) ==
    /\ AtStage(t, "verify_analysis_flow", "CONSTRUCTING")
    /\ \E reply \in backend.replies :
         LET res == PostResult(reply)
         IN /\ Post(t, "CONSTRUCTING", analysis_constructor_prompt(tool_id[t]), reply)
            /\ IF res # "content"
               THEN Finish(t, res) /\ UNCHANGED const_resp
               ELSE /\ const_resp' = [const_resp EXCEPT ![t] = reply.content]
                    /\ Goto(t, "EXECUTING")
    /\ UNCHANGED <<flow, user_input, router_resp, tool_id, const_json, mock_result,
                   final_resp>>
    /\ UNCHANGED <<parserVars, stressVars>>

\* lines 104-109
VerifyAnalysisFlow_Execution(t) ==
    /\ AtStage(t, "verify_analysis_flow", "EXECUTING")
    /\ mock_result' = [mock_result EXCEPT ![t] = AnalysisResult]
    /\ Goto(t, "RESPONDING")
    /\ UNCHANGED <<flow, user_input, calls, backend, router_resp, tool_id, const_resp,
                   const_json, final_resp>>
    /\ UNCHANGED <<parserVars, stressVars>>

\* lines 111-120
VerifyAnalysisFlow_Responder(t) ==
    /\ AtStage(t, "verify_analysis_flow", "RESPONDING")
    /\ \E reply \in backend.replies :
         LET res == PostResult(reply)
         IN /\ Post(t, "RESPONDING", get_responder_prompt(tool_id[t], mock_result[t]), reply)
            /\ IF res # "content"
               THEN Finish(t, res) /\ UNCHANGED final_resp
               ELSE /\ final_resp' = [final_resp EXCEPT ![t] = reply.content]
                    /\ Finish(t, "DONE")
    /\ UNCHANGED <<flow, user_input, router_resp, tool_id, const_resp, const_json,
                   mock_result>>
    /\ UNCHANGED <<parserVars, stressVars>>

(* ---------------------------------------------------------------------- *)
(* Specification                                                           *)
(* ---------------------------------------------------------------------- *)

Next ==
    \/ \E t \in Turns : VerifyFlow_Router(t)
    \/ \E t \in Turns : VerifyFlow_Constructor(t)
    \/ \E t \in Turns : VerifyFlow_Execution(t)
    \/ \E t \in Turns : VerifyFlow_Responder(t)
    \/ \E t \in Turns : VerifyAnalysisFlow_Router(t)
    \/ \E t \in Turns : VerifyAnalysisFlow_Constructor(t)
    \/ \E t \in Turns : VerifyAnalysisFlow_Execution(t)
    \/ \E t \in Turns : VerifyAnalysisFlow_Responder(t)

Spec == Init /\ [][Next]_vars

(* ---------------------------------------------------------------------- *)
(* Observations used by the properties                                     *)
(* ---------------------------------------------------------------------- *)

\* the turn has made a backend call for this stage
Called(t, stage) == \E i \in DOMAIN calls[t] : calls[t][i].stage = stage

\* the backend answered the i-th call of the turn with a message content
GotContent(t, i) == Len(calls[t]) >= i /\ PostResult(calls[t][i].reply) = "content"

\* the i-th reply of the turn, cleaned of its fences, is a JSON object
ReplyIsObject(t, i) ==
    LET clean == CleanJson(calls[t][i].reply.content) IN
    JsonLoadsOk(clean) /\ JsonLoads(clean).kind = "object"

\* the JSON value of the i-th reply (when it is JSON)
ReplyJson(t, i) == JsonLoads(CleanJson(calls[t][i].reply.content))

\* the Constructor (the second backend call) was invoked
ConstructorInvoked(t) == Called(t, "CONSTRUCTING")

\* the Executor was invoked: the turn reached the execution statements
ExecutorInvoked(t) == pc[t] \in {"EXECUTING", "RESPONDING"}

\* the Responder (the third backend call) was invoked
ResponderInvoked(t) == Called(t, "RESPONDING")

\* the turn is over
Ended(t) == outcome[t] \in {"DONE", "FAILED", "RAISED"}

(* ---------------------------------------------------------------------- *)
(* Properties                                                              *)
(* ---------------------------------------------------------------------- *)

\* C1: fail-closed routing.  When the routing reply is a JSON object whose
\* `tool` is neither "chat" nor an id of the catalog, the route decision is
\* "chat" and the id reaches no later stage.
C1_FailClosedRouting ==
    \A t \in Turns :
        (/\ GotContent(t, 1)
         /\ ReplyIsObject(t, 1)
         /\ "tool" \in ReplyJson(t, 1).keys
         /\ ReplyJson(t, 1).tool \notin Catalog(flow[t]) \cup {"chat"})
        => /\ tool_id[t] = "chat"
           /\ ~ConstructorInvoked(t)
           /\ ~ExecutorInvoked(t)
           /\ ~ResponderInvoked(t)

\* C2: when the routing reply cannot be parsed as a JSON object, the turn
\* falls back to chat: no tool id is substituted and neither the
\* Constructor nor the Executor is invoked.
C2_UnparseableRoutingFallsBackToChat ==
    \A t \in Turns :
        (GotContent(t, 1) /\ ~ReplyIsObject(t, 1))
        => /\ tool_id[t] \in {"<unset>", "chat"}
           /\ pc[t] = "ROUTING"
           /\ ~ConstructorInvoked(t)
           /\ ~ExecutorInvoked(t)

\* C3: chat early exit.  A turn routed to "chat" ends at DONE in the
\* routing stage: no Constructor, Executor or Responder, and no execution
\* result.
C3_ChatEarlyExit ==
    \A t \in Turns :
        tool_id[t] = "chat"
        => /\ outcome[t] = "DONE"
           /\ pc[t] = "ROUTING"
           /\ Len(calls[t]) = 1
           /\ mock_result[t] = NoResult

\* C4: when a turn is routed to a catalog tool and the Constructor reply is
\* not parseable JSON, the turn fails at CONSTRUCTING and neither the
\* Executor nor the Responder is invoked.
C4_UnparseableConstructorFails ==
    \A t \in Turns :
        (/\ tool_id[t] \in Catalog(flow[t]) \ {"chat"}
         /\ GotContent(t, 2)
         /\ ~JsonLoadsOk(CleanJson(calls[t][2].reply.content)))
        => /\ outcome[t] = "FAILED"
           /\ pc[t] = "CONSTRUCTING"
           /\ ~ExecutorInvoked(t)
           /\ ~ResponderInvoked(t)

\* the parameter the Executor of verify_flow reads from the ParameterSet
ExecutorParams == {"color"}

\* C5: required-parameter completeness.  The Executor is only invoked with
\* a ParameterSet that holds every field it needs, and the result is never
\* built from a default put in the place of a missing field.
C5_NoExecutionOnMissingParams ==
    \A t \in Turns :
        (flow[t] = "verify_flow" /\ ExecutorInvoked(t))
        => /\ const_json[t].params_kind = "dict"
           /\ ExecutorParams \subseteq DOMAIN const_json[t].params
           /\ (mock_result[t] # NoResult
               => mock_result[t].color = const_json[t].params["color"])

\* C6: the Responder is invoked only with the real result of an execution
\* that succeeded; a turn whose execution fails ends at EXECUTING and its
\* Responder is never invoked.
C6_ResponderOnlyAfterExecution ==
    \A t \in Turns :
        /\ ResponderInvoked(t)
           => /\ mock_result[t] # NoResult
              /\ const_json[t].params_kind # "other"
              /\ \A i \in DOMAIN calls[t] :
                     calls[t][i].stage = "RESPONDING"
                     => calls[t][i].system.result = mock_result[t]
        /\ const_json[t].params_kind = "other"
           => /\ pc[t] = "EXECUTING"
              /\ mock_result[t] = NoResult
              /\ final_resp[t] = Unset
              /\ ~ResponderInvoked(t)

\* C6 witness: an execution has failed (the parameters are no mapping) and
\* the turn has ended at EXECUTING
C6_Witness ==
    \E t \in Turns :
        /\ const_json[t].params_kind = "other"
        /\ pc[t] = "EXECUTING"
        /\ outcome[t] = "RAISED"

\* C7: once the Executor has succeeded, the turn ends in DONE with a final
\* message, also when the Responder's backend call fails or its output is
\* empty.
C7_ResponderFailureDegrades ==
    \A t \in Turns :
        (mock_result[t] # NoResult /\ Ended(t))
        => /\ outcome[t] = "DONE"
           /\ final_resp[t] # Unset
           /\ final_resp[t] # <<>>

\* the routing call failed at transport level
RoutingTransportFailure(t) ==
    /\ Len(calls[t]) >= 1
    /\ calls[t][1].reply.kind # "no_answer"
    /\ \/ calls[t][1].reply.kind = "conn_error"
       \/ calls[t][1].reply.status # 200

\* C8: a transport failure of the routing call ends the turn in failure at
\* ROUTING: one call only, and no ParameterSet or ExecutionResult.
C8_RoutingTransportFailureFails ==
    \A t \in Turns :
        RoutingTransportFailure(t)
        => /\ pc[t] = "ROUTING"
           /\ outcome[t] \in {"FAILED", "RAISED"}
           /\ Len(calls[t]) = 1
           /\ const_json[t] = NoJson
           /\ mock_result[t] = NoResult

\* the i-th call of the turn was answered with a non-success HTTP status
ErrorStatus(t, i) ==
    /\ Len(calls[t]) >= i
    /\ calls[t][i].reply.kind = "response"
    /\ calls[t][i].reply.status # 200

\* C9: a reply with a non-success status is an error outcome of the stage
\* that made the call; its body is never used to pick a tool, to build
\* parameters or as the final message.
C9_ErrorStatusBodyNeverUsed ==
    \A t \in Turns :
        /\ ErrorStatus(t, 1)
           => /\ pc[t] = "ROUTING" /\ outcome[t] \in {"FAILED", "RAISED"}
              /\ tool_id[t] = "<unset>"
        /\ ErrorStatus(t, 2)
           => /\ pc[t] = "CONSTRUCTING" /\ outcome[t] \in {"FAILED", "RAISED"}
              /\ const_json[t] = NoJson
        /\ ErrorStatus(t, 3)
           => /\ pc[t] = "RESPONDING" /\ outcome[t] \in {"FAILED", "RAISED"}
              /\ final_resp[t] = Unset

\* C10: tool-id consistency.  The toolId of the ParameterSet a turn holds
\* equals the toolId of its route decision, whatever the backend wrote.
C10_ToolIdConsistency ==
    \A t \in Turns :
        (const_json[t] # NoJson /\ "toolId" \in const_json[t].keys)
        => const_json[t].toolId = tool_id[t]

\* the order of the stages that call the backend
StageOrder == <<"ROUTING", "CONSTRUCTING", "RESPONDING">>

\* C11: stage ordering.  The backend calls of a turn are Router,
\* Constructor, Responder in this order, each at most once (three calls at
\* most), and a stage runs only after the previous one succeeded: the
\* Constructor after a parsed route decision, the Executor after a parsed
\* Constructor reply, the Responder after an execution result.
C11_StageOrdering ==
    \A t \in Turns :
        /\ Len(calls[t]) <= 3
        /\ \A i \in DOMAIN calls[t] : calls[t][i].stage = StageOrder[i]
        /\ ConstructorInvoked(t) => (GotContent(t, 1) /\ ReplyIsObject(t, 1))
        /\ ExecutorInvoked(t) => (GotContent(t, 2) /\ ReplyIsObject(t, 2))
        /\ ResponderInvoked(t) => mock_result[t] # NoResult

\* C12: termination.  A turn is always either over (DONE or FAILED, or an
\* exception has left the function) or able to take its next step: no
\* backend call leaves it waiting for ever.
C12_Termination ==
    \A t \in Turns : Ended(t) \/ (outcome[t] = "running" /\ ENABLED Next)

\* what the flow function hands back to its caller once it is over: both
\* flows end with a bare return on every path, that is with None
ReturnValue(t) ==
    IF outcome[t] \in {"DONE", "FAILED"}
    THEN [status |-> "None", stage |-> "None"]
    ELSE [status |-> "<no value>", stage |-> "<no value>"]

\* C13: a turn that is over and did not end in DONE hands its caller one
\* FAILED value that carries the stage at which it failed (ROUTING,
\* CONSTRUCTING or EXECUTING).
C13_FailedValueCarriesStage ==
    \A t \in Turns :
        (Ended(t) /\ outcome[t] # "DONE")
        => /\ pc[t] \in {"ROUTING", "CONSTRUCTING", "EXECUTING"}
           /\ ReturnValue(t) = [status |-> "FAILED", stage |-> pc[t]]

\* C15: extra-output tolerance.  When the Constructor reply has fields
\* outside the schema the construction succeeds, and the ParameterSet the
\* Executor gets holds no field outside the schema.
C15_ExtraFieldsDropped ==
    \A t \in Turns :
        (/\ flow[t] = "verify_flow"
         /\ GotContent(t, 2)
         /\ ReplyIsObject(t, 2)
         /\ ReplyJson(t, 2).params_kind = "dict"
         /\ ExecutorParams \subseteq DOMAIN ReplyJson(t, 2).params)
        => /\ ExecutorInvoked(t)
           /\ DOMAIN const_json[t].params \subseteq ParamSchema

\* C16: every call of the Router and of the Constructor carries
\* temperature 0.0 and every call of the Responder a strictly higher one
\* (0.7).
C16_Temperatures ==
    \A t \in Turns :
        \A i \in DOMAIN calls[t] :
            /\ calls[t][i].stage \in {"ROUTING", "CONSTRUCTING"}
               => calls[t][i].temperature = 0
            /\ calls[t][i].stage = "RESPONDING"
               => (calls[t][i].temperature = 7 /\ calls[t][i].temperature > 0)

\* C16 witness: a turn has made its three calls
C16_Witness ==
    \E t \in Turns :
        /\ Len(calls[t]) = 3
        /\ calls[t][3].stage = "RESPONDING"
        /\ outcome[t] = "DONE"

(* ---------------------------------------------------------------------- *)
(* The response parser on its own                                          *)
(* ---------------------------------------------------------------------- *)

\* the chunks a raw text is made of
RawChunks ==
    {BT, "json", " ", "\n", "\t", PlainText,
     "{\"tool\": \"chat\"}", "[\"welcome_header\"]"}

\* every raw text of at most MaxRawLen chunks
RawTexts == UNION { [1..n -> RawChunks] : n \in 0..MaxRawLen }

ParserInit ==
    /\ TurnsInit({})
    /\ BackendInit({}, FALSE)
    /\ StressIdle
    /\ parse_input \in RawTexts
    /\ parse_output = <<>>

\* the parser applied to the text as it is and to the text inside a
\* ```json fence
ParseBoth ==
    /\ parse_output = <<>>
    /\ parse_output' = <<ParseJson(parse_input), ParseJson(Fenced(parse_input, 1))>>
    /\ UNCHANGED <<turnVars, backend, stressVars, parse_input>>

ParserNext == ParseBoth

ParserSpec == ParserInit /\ [][ParserNext]_vars

\* C14: parser round trip.  Parsing a raw text wrapped in a ```json fence
\* gives the same outcome (the same value, or failure in both cases) as
\* parsing the text unfenced.
C14_ParserRoundTrip ==
    parse_output # <<>> => parse_output[1] = parse_output[2]

\* C14 witness: a JSON object with blanks around it was parsed, fenced and
\* unfenced, to the object
C14_Witness ==
    /\ parse_output # <<>>
    /\ Len(parse_input) = 3
    /\ parse_input[2] = "{\"tool\": \"chat\"}"
    /\ parse_output[2].ok
    /\ parse_output[2].value.tool = "chat"

(* ---------------------------------------------------------------------- *)
(* run_stress_test (scripts/stress_test_ai.py)                             *)
(* ---------------------------------------------------------------------- *)

\* lines 11-31
SCENARIOS ==
    << "Pon un título gigante que salude a mis visitantes",
       "Necesito una portada animada con mi nombre",
       "Quiero ver a la víbora comiendo mis commits",
       "Pon esa cosa que se mueve por el calendario de verde",
       "Muéstrame qué tan activo he sido con una tarjeta de datos",
       "Analiza mi rendimiento y ponlo en el readme",
       "Un pastel visual con mis tecnologías favoritas",
       "Crea un archivo LICENSE.md automático",
       "Dime un chiste sobre Java",
       "¿Puedes optimizar mi código?" >>

\* what scripts/current_prompt.json may be: missing, not JSON, JSON that is
\* no object, an object without "systemPrompt", with a null or an empty
\* one, or with a prompt
PromptFiles ==
    {"missing", "not_json", "not_object", "no_key", "null", "empty", "prompt"}

\* the prompt exported by the application
LivePrompt == "You are an Intent Classifier"

\* lines 39-41: json.load raises on a file that is not JSON, and data.get
\* on a value that is no dict
LivePromptRaises(file) == file \in {"not_json", "not_object"}

\* lines 33-41: get_live_prompt(), for a file on which it does not raise
get_live_prompt(file) ==
    IF file \in {"missing", "no_key", "null"} THEN "None"
    ELSE IF file = "empty" THEN ""
    ELSE LivePrompt

\* a test that lets the empty prompt through
NoPrompt_NoneOnly(prompt) == prompt = "None"

\* line 48: not system_prompt
NoPrompt(prompt) == prompt \in {"None", ""}

\* the replies of the backend during the stress run
StressReplies ==
    { HttpReply("no_answer", 0, "none", <<>>),
      HttpReply("response", 200, "no_choices", <<>>),
      HttpReply("response", 500, "completion",
                <<"{\"tool\": \"welcome_header\"}">>),
      HttpReply("response", 200, "completion",
                Fenced(<<"{\"tool\": \"welcome_header\"}">>, 1)),
      HttpReply("response", 200, "completion", <<PlainText>>) }

\* the "response" member of a results entry
Response(kind, value, text) == [kind |-> kind, value |-> value, text |-> text]

\* lines 67-94: `parsed` at the end of one iteration.  The call carries
\* timeout=30, so a backend that does not answer raises as a connection
\* failure does; every exception of the outer try gives "ERROR", a status
\* other than 200 gives "FAILED", and a reply that is no JSON object is
\* kept as the raw content
ScenarioResponse(reply) ==
    IF reply.kind # "response" THEN Response("ERROR", NoJson, <<>>)
    ELSE IF reply.status # 200 THEN Response("FAILED", NoJson, <<>>)
    ELSE IF reply.shape # "completion" THEN Response("ERROR", NoJson, <<>>)
    ELSE LET p == ParseJson(reply.content) IN
         IF p.ok
         THEN Response("json", p.value, <<>>)
         ELSE Response("raw", NoJson, reply.content)

StressInit ==
    /\ TurnsInit({})
    /\ BackendInit(StressReplies, FALSE)
    /\ ParserIdle
    /\ prompt_file \in PromptFiles
    /\ system_prompt = "<unset>"
    /\ scenario = 0
    /\ results = <<>>
    /\ report = <<"<not written>">>
    /\ stress_pc = "idle"
    /\ posted = 0

\* lines 43-53: read the prompt; give up without one
StressStart ==
    /\ stress_pc = "idle"
    /\ IF LivePromptRaises(prompt_file)
       THEN /\ stress_pc' = "raised"
            /\ UNCHANGED <<system_prompt, scenario>>
       ELSE /\ system_prompt' = get_live_prompt(prompt_file)
            /\ IF NoPrompt(get_live_prompt(prompt_file))
               THEN stress_pc' = "aborted" /\ UNCHANGED scenario
               ELSE stress_pc' = "loop" /\ scenario' = 1
    /\ UNCHANGED <<turnVars, backend, parserVars, prompt_file, results, report, posted>>

\* lines 102-105: after the last scenario the audit report is written
FinishRun(n, entries) ==
    IF n = Len(SCENARIOS)
    THEN report' = entries /\ stress_pc' = "done"
    ELSE UNCHANGED <<report, stress_pc>>

\* an iteration in which an exception ends the whole run
StressScenario_AbortOnError ==
    /\ stress_pc = "loop"
    /\ scenario <= Len(SCENARIOS)
    /\ \E reply \in backend.replies :
         /\ posted' = posted + 1
         /\ IF ScenarioResponse(reply).kind = "ERROR"
            THEN stress_pc' = "raised" /\ UNCHANGED <<results, scenario, report>>
            ELSE /\ results' = Append(results, [input |-> SCENARIOS[scenario],
                                                response |-> ScenarioResponse(reply)])
                 /\ scenario' = scenario + 1
                 /\ FinishRun(scenario, results')
    /\ UNCHANGED <<turnVars, backend, parserVars, prompt_file, system_prompt>>

\* lines 55-105: one iteration of the loop over SCENARIOS; the last one
\* goes on to write the report
StressScenario ==
    /\ stress_pc = "loop"
    /\ scenario <= Len(SCENARIOS)
    /\ \E reply \in backend.replies :
         /\ posted' = posted + 1
         /\ results' = Append(results, [input |-> SCENARIOS[scenario],
                                        response |-> ScenarioResponse(reply)])
         /\ scenario' = scenario + 1
         /\ FinishRun(scenario, results')
    /\ UNCHANGED <<turnVars, backend, parserVars, prompt_file, system_prompt>>

StressNext ==
    \/ StressStart
    \/ StressScenario

StressSpec == StressInit /\ [][StressNext]_vars

\* C19: stress run isolation.  With a prompt in hand the run never stops
\* early: the scenarios are taken once each in list order, each leaves
\* exactly one results entry whatever its outcome, and the report written
\* at the end has one entry per scenario, in scenario order.
C19_OneEntryPerScenario ==
    ~NoPrompt(system_prompt) /\ system_prompt # "<unset>"
    => /\ stress_pc \in {"loop", "done"}
       /\ scenario \in 1..(Len(SCENARIOS) + 1)
       /\ Len(results) = scenario - 1
       /\ posted = scenario - 1
       /\ \A k \in DOMAIN results : results[k].input = SCENARIOS[k]
       /\ stress_pc = "loop"
          => (scenario <= Len(SCENARIOS) /\ report = <<"<not written>">>)
       /\ stress_pc = "done"
          => /\ scenario = Len(SCENARIOS) + 1
             /\ report = results
             /\ Len(report) = Len(SCENARIOS)
             /\ \A k \in DOMAIN report : report[k].input = SCENARIOS[k]

\* C19 witness: the report is written, and the first scenario raised while
\* the last one parsed
C19_Witness ==
    /\ stress_pc = "done"
    /\ report[1].response.kind = "ERROR"
    /\ report[2].response.kind = "FAILED"
    /\ report[3].response.kind = "raw"
    /\ report[Len(SCENARIOS)].response.kind = "json"

\* C20: stress run precondition.  When the prompt file is missing or holds
\* no non-empty systemPrompt, the run ends with no backend call made and no
\* report written.
C20_NoPromptNoRun ==
    (prompt_file # "prompt" /\ stress_pc # "idle")
    => /\ stress_pc \in {"aborted", "raised"}
       /\ posted = 0
       /\ results = <<>>
       /\ report = <<"<not written>">>

\* C20 witness: the file holds an empty systemPrompt and the run has given up
C20_Witness ==
    /\ prompt_file = "empty"
    /\ system_prompt = ""
    /\ stress_pc = "aborted"

(* ---------------------------------------------------------------------- *)
(* Several turns at once                                                   *)
(* ---------------------------------------------------------------------- *)

\* a constructor reply in the format the constructor prompt asks for
BannerCall ==
    "{\"action\": \"insert_banner\", \"toolId\": \"welcome_header\", \"params\": {\"type\": \"shark\", \"color\": \"blue\"}}"

\* two turns whose steps interleave
ConcTurnIds == {1, 2}

\* the replies of the backend while several turns run
ConcReplies ==
    { HttpReply("conn_error", 0, "none", <<>>),
      HttpReply("response", 200, "completion", <<PlainText>>),
      HttpReply("response", 200, "completion", <<"{\"tool\": \"chat\"}">>),
      HttpReply("response", 200, "completion", <<"{\"params\": \"blue\"}">>),
      HttpReply("response", 200, "completion", <<BannerCall>>),
      HttpReply("response", 200, "completion",
                Fenced(<<"{\"tool\": \"welcome_header\"}">>, 1)) }

ConcInit ==
    /\ TurnsInit(ConcTurnIds)
    /\ BackendInit(ConcReplies, FALSE)
    /\ ParserIdle
    /\ StressIdle

ConcSpec == ConcInit /\ [][Next]_vars

\* the local variables of one turn
TurnState(t) ==
    [pc |-> pc[t], outcome |-> outcome[t], router_resp |-> router_resp[t],
     tool_id |-> tool_id[t], const_resp |-> const_resp[t],
     const_json |-> const_json[t], mock_result |-> mock_result[t],
     final_resp |-> final_resp[t],
     stages |-> [i \in DOMAIN calls[t] |-> calls[t][i].stage]]

\* a call that did not give a content ends the run where it is
CallEnds(s, reply) ==
    [s EXCEPT !.outcome = PostResult(reply), !.stages = Append(@, s.pc)]

\* the flow function run on its own, statement by statement, with the
\* replies rs to its backend calls: the router
RouterAlone(f, s, reply) ==
    IF PostResult(reply) # "content" THEN CallEnds(s, reply)
    ELSE IF f = "verify_flow"
    THEN LET p == RouterParse(reply.content) IN
         IF ~p.ok
         THEN [s EXCEPT !.router_resp = reply.content, !.stages = Append(@, s.pc),
                        !.outcome = "FAILED"]
         ELSE IF p.tool = "chat"
         THEN [s EXCEPT !.router_resp = reply.content, !.stages = Append(@, s.pc),
                        !.tool_id = p.tool, !.outcome = "DONE"]
         ELSE [s EXCEPT !.router_resp = reply.content, !.stages = Append(@, s.pc),
                        !.tool_id = p.tool, !.pc = "CONSTRUCTING"]
    ELSE [s EXCEPT !.router_resp = reply.content, !.stages = Append(@, s.pc),
                   !.tool_id = AnalysisRouterParse(reply.content),
                   !.pc = "CONSTRUCTING"]

\* the constructor
ConstructorAlone(f, s, reply) ==
    IF PostResult(reply) # "content" THEN CallEnds(s, reply)
    ELSE IF f = "verify_flow"
    THEN LET p == ConstructorParse(reply.content) IN
         IF ~p.ok
         THEN [s EXCEPT !.const_resp = reply.content, !.stages = Append(@, s.pc),
                        !.const_json = p.json, !.outcome = "FAILED"]
         ELSE [s EXCEPT !.const_resp = reply.content, !.stages = Append(@, s.pc),
                        !.const_json = p.json, !.pc = "EXECUTING"]
    ELSE [s EXCEPT !.const_resp = reply.content, !.stages = Append(@, s.pc),
                   !.pc = "EXECUTING"]

\* the simulated execution
ExecutionAlone(f, s) ==
    IF f = "verify_flow"
    THEN IF ExecutionRaises(s.const_json)
         THEN [s EXCEPT !.outcome = "RAISED"]
         ELSE [s EXCEPT !.mock_result = MockResult(s.tool_id, s.const_json),
                        !.pc = "RESPONDING"]
    ELSE [s EXCEPT !.mock_result = AnalysisResult, !.pc = "RESPONDING"]

\* the responder
ResponderAlone(s, reply) ==
    IF PostResult(reply) # "content" THEN CallEnds(s, reply)
    ELSE [s EXCEPT !.final_resp = reply.content, !.stages = Append(@, s.pc),
                   !.outcome = "DONE"]

Running(s, stage) == s.outcome = "running" /\ s.pc = stage

\* the state in which the flow function f, run alone, is left by the
\* replies rs
RunAlone(f, rs) ==
    LET s0 == [pc |-> "ROUTING", outcome |-> "running", router_resp |-> Unset,
               tool_id |-> "<unset>", const_resp |-> Unset, const_json |-> NoJson,
               mock_result |-> NoResult, final_resp |-> Unset, stages |-> <<>>]
        s1 == IF Len(rs) >= 1 THEN RouterAlone(f, s0, rs[1]) ELSE s0
        s2 == IF Running(s1, "CONSTRUCTING") /\ Len(rs) >= 2
              THEN ConstructorAlone(f, s1, rs[2]) ELSE s1
        s3 == IF Running(s2, "EXECUTING") THEN ExecutionAlone(f, s2) ELSE s2
        s4 == IF Running(s3, "RESPONDING") /\ Len(rs) >= 3
              THEN ResponderAlone(s3, rs[3]) ELSE s3
    IN s4

\* the replies a turn has received, in order
RepliesOf(t) == [i \in DOMAIN calls[t] |-> calls[t][i].reply]

\* C17: turn independence.  However the steps of several turns interleave,
\* a turn that has stopped made the calls and is left in the state that the
\* same flow run alone reaches with the same backend replies.
C17_TurnIndependence ==
    \A t \in Turns :
        outcome[t] # "running"
        => /\ TurnState(t) = RunAlone(flow[t], RepliesOf(t))
           /\ calls[t][1].system = get_router_prompt

\* C17 witness: two turns of different flows have both run to their end,
\* one of them through all its stages
C17_Witness ==
    /\ Turns = ConcTurnIds
    /\ flow[1] # flow[2]
    /\ \A t \in Turns : outcome[t] = "DONE" /\ Len(calls[t]) = 3

(* ---------------------------------------------------------------------- *)
(* A deterministic backend stub                                            *)
(* ---------------------------------------------------------------------- *)

\* three turns: two route calls and a turn that runs between them
StubTurnIds == {1, 2, 3}

\* the replies the stub's table may be filled with
StubReplies ==
    { HttpReply("conn_error", 0, "none", <<>>),
      HttpReply("response", 200, "completion", <<"{\"tool\": \"chat\"}">>),
      HttpReply("response", 200, "completion", <<BannerCall>>),
      HttpReply("response", 200, "completion",
                Fenced(<<"{\"tool\": \"welcome_header\"}">>, 1)) }

StubInit ==
    /\ TurnsInit(StubTurnIds)
    /\ BackendInit(StubReplies, TRUE)
    /\ ParserIdle
    /\ StressIdle

StubSpec == StubInit /\ [][Next]_vars

\* C18: routing determinism.  Against a backend that is a fixed table from
\* request to reply, two turns of the same flow with the same utterance
\* that have made their routing call hold the same tool id, whatever else
\* ran in between.
C18_RoutingDeterminism ==
    \A t1, t2 \in Turns :
        (/\ flow[t1] = flow[t2]
         /\ user_input[t1] = user_input[t2]
         /\ Len(calls[t1]) >= 1
         /\ Len(calls[t2]) >= 1)
        => /\ tool_id[t1] = tool_id[t2]
           /\ (GotContent(t1, 1) <=> GotContent(t2, 1))

\* C18 witness: two turns with the same utterance were routed to the same
\* catalog tool, the first one having finished before and a turn with
\* another utterance having run as well
C18_Witness ==
    /\ Turns = StubTurnIds
    /\ flow[1] = "verify_flow" /\ flow[2] = "verify_flow"
    /\ user_input[1] = user_input[2]
    /\ user_input[3] # user_input[1]
    /\ tool_id[1] = "welcome_header" /\ tool_id[2] = "welcome_header"
    /\ outcome[1] = "DONE" /\ Len(calls[1]) = 3
    /\ Len(calls[3]) >= 1

====
